---------------------------- MODULE Spec2Model ----------------------------
(***************************************************************************)
(* Model of scripts/pr-utils.js: the hosting-API commit rewriters          *)
(* (apiSquashPR, apiRebasePR, apiCherryPickPR), the local git pipeline     *)
(* (localGitMergePipeline), the approval tally (checkPrApprovals) and the  *)
(* submodule resolver (enrichSubmodules / determinePRBranchAndNumber).     *)
(*                                                                         *)
(* One invocation of one function is one behaviour: Init picks the         *)
(* function (fn) and its inputs, the actions are the function's steps.     *)
(* Every hosting API call and every shell command may fail.                *)
(***************************************************************************)
EXTENDS Integers, Sequences, FiniteSets, TLC

\* ------------------------------------------------------------------ bounds
MaxCommits == 3
MaxFiles == 2
MaxReviews == 3
MaxPRs == 2
MaxConflicts == 2

VARIABLES
    fn,          \* the function this behaviour executes
    pc,          \* position in that function
    result,      \* how the function ended: a returned value or a thrown error
    apiFailed,   \* names of the hosting API calls that have failed
    logs,        \* core.info/warning/error/setFailed/setOutput and shell events, in order
    \* hosting state
    commits,     \* pulls.listCommits of the PR, oldest first
    changedFiles,\* repos.getCommit(...).files of the PR commit, with both sides' content
    refs,        \* branch name -> sha (NoSha: the branch does not exist)
    writes,      \* write calls accepted by the host, in order
    nObjs,       \* objects (commits, trees) created so far
    \* locals of the API functions
    i,           \* loop index
    currentSha,  \* apiCherryPickPR: currentSha
    treeUpdates, \* apiRebasePR: treeUpdates
    newObj,      \* apiRebasePR: newTree.sha / new*.sha of the last created object
    \* checkPrApprovals
    reviews, latestByUser,
    \* enrichSubmodules / determinePRBranchAndNumber
    rawSubmodules, enriched, host, setFailedCalled,
    \* localGitMergePipeline
    args, cwd, conflicted, staged, exited,
    \* getConflictedFiles
    baseFiles, headFiles, filesWithConflicts

apiVars == <<commits, changedFiles, refs, writes, nObjs, i, currentSha, treeUpdates, newObj>>
approvalVars == <<reviews, latestByUser>>
resolverVars == <<rawSubmodules, enriched, host, setFailedCalled>>
pipelineVars == <<args, cwd, conflicted, staged, exited>>
probeVars == <<baseFiles, headFiles, filesWithConflicts>>
vars == <<fn, pc, result, apiFailed, logs, apiVars, approvalVars, resolverVars, pipelineVars,
          probeVars>>

\* ------------------------------------------------------------------ values
NoSha == <<>>
BaseTip == <<"b", 1>>       \* tip of the PR's base branch
BaseOld == <<"b", 0>>       \* an earlier commit of the base branch
OtherParent == <<"m", 0>>   \* second parent of a merge commit
BaseTree == <<"bt", 0>>     \* tree of BaseTip
PrSha(k) == <<"c", k>>      \* sha of the PR's k-th commit
NewSha(k) == <<"n", k>>     \* sha the host gives the k-th created object
Trees == {<<"t", 1>>, <<"t", 2>>}
PrBranch == "feature-x"     \* pr.data.head.ref
BaseBranch == "main"        \* pr.data.base.ref
TempBranch == "temp-cherry-pick"
Branches == {PrBranch, BaseBranch, TempBranch}

NoResult == [kind |-> "running"]
Return(v) == [kind |-> "return", value |-> v]
Throw(e) == [kind |-> "throw", error |-> e]

Last(s) == s[Len(s)]
SeqsUpTo(S, n) == UNION {[1..k -> S] : k \in 0..n}
Range(s) == {s[k] : k \in DOMAIN s}

\* The PR's commits form a chain; the first one's parents are the only free part.
FirstParents == {<<BaseOld>>, <<BaseTip>>, <<BaseOld, OtherParent>>}
CommitLists ==
    {[k \in 1..Len(ts) |->
        [sha |-> PrSha(k), tree |-> ts[k],
         parents |-> IF k = 1 THEN fp ELSE <<PrSha(k - 1)>>]] :
     ts \in SeqsUpTo(Trees, MaxCommits), fp \in FirstParents}

\* git.getCommit: the commit object of a sha of the PR
GetCommit(sha) == CHOOSE c \in Range(commits) : c.sha = sha

InitRefs(cs) ==
    [b \in Branches |->
        IF b = BaseBranch THEN BaseTip
        ELSE IF b = PrBranch THEN (IF Len(cs) = 0 THEN BaseOld ELSE Last(cs).sha)
        ELSE NoSha]

\* Values of the variables a function does not use.
ApiIdle ==
    /\ commits = <<>> /\ changedFiles = <<>>
    /\ refs = InitRefs(<<>>) /\ writes = <<>> /\ nObjs = 0
    /\ i = 0 /\ currentSha = NoSha /\ treeUpdates = <<>> /\ newObj = NoSha
ApprovalIdle == reviews = <<>> /\ latestByUser = <<>>
ResolverIdle ==
    /\ rawSubmodules = <<>> /\ enriched = <<>>
    /\ host = <<>> /\ setFailedCalled = FALSE
PipelineIdle ==
    /\ args = <<>> /\ cwd = "" /\ conflicted = <<>> /\ staged = <<>> /\ exited = FALSE
ProbeIdle == baseFiles = <<>> /\ headFiles = <<>> /\ filesWithConflicts = <<>>
Start(f, p) ==
    /\ fn = f /\ pc = p /\ result = NoResult /\ apiFailed = {} /\ logs = <<>>

Log(level, msg) == [level |-> level, msg |-> msg]

\* ------------------------------------------------------- the hosting API
\* git.createCommit: the host stores the commit and names it
CreateCommit(tree, parents) ==
    /\ nObjs' = nObjs + 1
    /\ newObj' = NewSha(nObjs + 1)
    /\ writes' = Append(writes, [call |-> "createCommit", sha |-> NewSha(nObjs + 1),
                                  tree |-> tree, parents |-> parents])
\* git.updateRef
UpdateRef(ref, sha, force) ==
    /\ refs' = [refs EXCEPT ![ref] = sha]
    /\ writes' = Append(writes, [call |-> "updateRef", ref |-> ref, sha |-> sha,
                                  force |-> force])
\* the commits created so far, as the host stores them
Created == {w \in Range(writes) : w.call = "createCommit"}
\* the host accepts an unforced ref update only as a fast-forward
FastForward(ref, sha) ==
    \E c \in Created : c.sha = sha /\ refs[ref] \in Range(c.parents)

\* ------------------------------------------------------------ apiSquashPR
InitSquash ==
    /\ Start("apiSquashPR", "pulls.get")
    /\ commits \in CommitLists
    /\ changedFiles = <<>>
    /\ refs = InitRefs(commits)
    /\ writes = <<>> /\ nObjs = 0 /\ i = 0
    /\ currentSha = NoSha /\ treeUpdates = <<>> /\ newObj = NoSha
    /\ ApprovalIdle /\ ResolverIdle /\ PipelineIdle /\ ProbeIdle

notApi == <<approvalVars, resolverVars, pipelineVars, probeVars>>

SquashGetPR ==
    /\ fn = "apiSquashPR" /\ pc = "pulls.get"
    /\ pc' = "pulls.listCommits"
    /\ UNCHANGED <<fn, result, apiFailed, logs, apiVars, notApi>>

\* line 15: commits.length <= 1
SquashSkipsEmptyOnly(cs) == Len(cs) < 1
SquashSkips(cs) == Len(cs) <= 1

SquashListCommits ==
    /\ fn = "apiSquashPR" /\ pc = "pulls.listCommits"
    /\ IF SquashSkips(commits)
       THEN /\ pc' = "done"
            /\ result' = Return([squashNeeded |-> FALSE, result |-> "skipped"])
            /\ logs' = Append(logs, Log("info", "skipping squash"))
       ELSE /\ pc' = "git.getCommit"
            /\ logs' = Append(logs, Log("info", "found commits"))
            /\ UNCHANGED result
    /\ UNCHANGED <<fn, apiFailed, apiVars, notApi>>

\* lines 22-26: both commit reads
SquashGetCommits ==
    /\ fn = "apiSquashPR" /\ pc = "git.getCommit"
    /\ pc' = "git.createCommit"
    /\ UNCHANGED <<fn, result, apiFailed, logs, apiVars, notApi>>

\* lines 28, 37-44: the options of the squash commit
SquashCommitOptionsWrongTree(firstCommitData, headCommitData) ==
    [tree |-> firstCommitData.tree, parents |-> <<firstCommitData.parents[1]>>]
SquashCommitOptions(firstCommitData, headCommitData) ==
    [tree |-> headCommitData.tree, parents |-> <<firstCommitData.parents[1]>>]

SquashCreateCommit ==
    /\ fn = "apiSquashPR" /\ pc = "git.createCommit"
    /\ LET o == SquashCommitOptions(GetCommit(commits[1].sha),
                                    GetCommit(Last(commits).sha))
       IN CreateCommit(o.tree, o.parents)
    /\ pc' = "git.updateRef"
    /\ logs' = Append(logs, Log("info", "squash parent"))
    /\ UNCHANGED <<fn, result, apiFailed, commits, changedFiles, refs, i, currentSha,
                   treeUpdates, notApi>>

SquashUpdateRef ==
    /\ fn = "apiSquashPR" /\ pc = "git.updateRef"
    /\ UpdateRef(PrBranch, newObj, TRUE)
    /\ pc' = "done"
    /\ result' = Return([squashNeeded |-> TRUE, result |-> "success", sha |-> newObj])
    /\ logs' = Append(logs, Log("info", "squash completed"))
    /\ UNCHANGED <<fn, apiFailed, commits, changedFiles, nObjs, i, currentSha,
                   treeUpdates, newObj, notApi>>

SquashCalls == {"pulls.get", "pulls.listCommits", "git.getCommit", "git.createCommit",
                "git.updateRef"}

\* lines 54-57: the call at pc fails; the error is logged and thrown again
SquashCatch ==
    /\ fn = "apiSquashPR" /\ pc \in SquashCalls
    /\ apiFailed' = apiFailed \cup {pc}
    /\ logs' = Append(logs, Log("error", "Error squashing PR"))
    /\ result' = Throw(pc)
    /\ pc' = "done"
    /\ UNCHANGED <<fn, apiVars, notApi>>


\* ------------------------------------------------------------ apiRebasePR
\* One side of a changed file as repos.getContent answers: a file with its decoded
\* content, something that is no file (a submodule, a directory), or nothing (404).
FileOf(c) == [type |-> "file", content |-> c]
NonFile == [type |-> "submodule", content |-> "ptr"]
Absent == [type |-> "absent", content |-> ""]
PrSides == {FileOf("x"), FileOf("y"), NonFile}
BaseSides == {FileOf("x"), NonFile, Absent}
FileEntries ==
    [status : {"modified", "removed"}, pr : PrSides, base : BaseSides]
\* filename of the k-th changed file
FileName(k) == <<"file", k>>

InitRebase ==
    /\ Start("apiRebasePR", "pulls.get")
    /\ commits \in CommitLists
    /\ IF Len(commits) = 1 /\ commits[1].parents = <<BaseOld>>
       THEN changedFiles \in SeqsUpTo(FileEntries, MaxFiles)
       ELSE changedFiles = <<>>
    /\ refs = InitRefs(commits)
    /\ writes = <<>> /\ nObjs = 0 /\ i = 0
    /\ currentSha = NoSha /\ treeUpdates = <<>> /\ newObj = NoSha
    /\ ApprovalIdle /\ ResolverIdle /\ PipelineIdle /\ ProbeIdle

RebaseGetPR ==
    /\ fn = "apiRebasePR" /\ pc = "pulls.get"
    /\ pc' = "pulls.listCommits"
    /\ UNCHANGED <<fn, result, apiFailed, logs, apiVars, notApi>>

\* line 77: commits.length !== 1 throws
RebaseAcceptsAny(cs) == Len(cs) >= 1
RebaseAccepts(cs) == Len(cs) = 1

\* lines 195-198: the catch block
RebaseRethrows(msg) == Throw(msg)
RebaseFailed(msg) ==
    Return([rebaseNeeded |-> TRUE, result |-> "failed", error |-> msg])

RebaseListCommits ==
    /\ fn = "apiRebasePR" /\ pc = "pulls.listCommits"
    /\ IF RebaseAccepts(commits)
       THEN /\ pc' = "repos.getCommit"
            /\ UNCHANGED <<result, logs>>
       ELSE /\ pc' = "done"
            /\ result' = RebaseFailed("PR must contain exactly 1 commit")
            /\ logs' = Append(logs, Log("error", "Rebase failed"))
    /\ UNCHANGED <<fn, apiFailed, apiVars, notApi>>

\* lines 81-87
RebaseGetCommit ==
    /\ fn = "apiRebasePR" /\ pc = "repos.getCommit"
    /\ IF Len(changedFiles) = 0
       THEN /\ pc' = "done"
            /\ result' = Return([rebaseNeeded |-> FALSE, result |-> "skipped"])
            /\ logs' = Append(logs, Log("info", "No files changed"))
       ELSE /\ pc' = "git.getRef"
            /\ UNCHANGED <<result, logs>>
    /\ UNCHANGED <<fn, apiFailed, apiVars, notApi>>

\* lines 90-94: base branch head and its tree
RebaseGetBase ==
    /\ fn = "apiRebasePR" /\ pc \in {"git.getRef", "git.getCommit"}
    /\ pc' = IF pc = "git.getRef" THEN "git.getCommit" ELSE "files"
    /\ i' = 1
    /\ UNCHANGED <<fn, result, apiFailed, logs, commits, changedFiles, refs, writes,
                   nObjs, currentSha, treeUpdates, newObj, notApi>>

\* lines 109-114, 122-127: the content is decoded only for a file
Decode(side) == IF side.type = "file" THEN side.content ELSE ""

\* lines 133-136
IsDifferentAlways(status, baseExists, prContent, baseContent) == TRUE
IsDifferent(status, baseExists, prContent, baseContent) ==
    status = "removed" \/ ~baseExists \/ prContent # baseContent

\* lines 143-162: the tree entry of a file that differs
TreeEntry(k, status, prContent) ==
    [path |-> FileName(k),
     sha |-> IF status = "removed" THEN "null" ELSE <<"blob", prContent>>,
     mode |-> "100644", type |-> "blob"]

\* line 120: the base-side read fails: the file is not there (404), or the call
\* fails for another reason
BaseReadFailure(file) ==
    IF file.base = Absent THEN "repos.getContent(base) 404" ELSE "repos.getContent(base)"

\* lines 99-163: one iteration of the loop over the changed files. The base read's
\* failure is caught inside the loop (lines 128-130) and read as "not on base".
RebaseFile ==
    /\ fn = "apiRebasePR" /\ pc = "files" /\ i <= Len(changedFiles)
    /\ LET file == changedFiles[i]
           prContent == IF file.status # "removed" THEN Decode(file.pr) ELSE ""
       IN \E baseExists \in (IF file.base = Absent THEN {FALSE} ELSE {TRUE, FALSE}) :
            LET baseContent == IF baseExists THEN Decode(file.base) ELSE ""
            IN /\ apiFailed' = IF baseExists THEN apiFailed
                               ELSE apiFailed \cup {BaseReadFailure(file)}
               /\ IF IsDifferent(file.status, baseExists, prContent, baseContent)
                  THEN /\ treeUpdates' =
                            Append(treeUpdates, TreeEntry(i, file.status, prContent))
                       /\ UNCHANGED logs
                  ELSE /\ logs' = Append(logs, Log("info", "Skipping unchanged file"))
                       /\ UNCHANGED treeUpdates
    /\ i' = i + 1
    /\ UNCHANGED <<fn, pc, result, commits, changedFiles, refs, writes, nObjs,
                   currentSha, newObj, notApi>>

\* lines 165-168
RebaseAfterLoop ==
    /\ fn = "apiRebasePR" /\ pc = "files" /\ i > Len(changedFiles)
    /\ IF Len(treeUpdates) = 0
       THEN /\ pc' = "done"
            /\ result' = Return([rebaseNeeded |-> FALSE, result |-> "skipped-no-changes"])
            /\ logs' = Append(logs, Log("info", "Nothing to rebase"))
       ELSE /\ pc' = "git.createTree"
            /\ UNCHANGED <<result, logs>>
    /\ UNCHANGED <<fn, apiFailed, apiVars, notApi>>

\* line 171
RebaseCreateTree ==
    /\ fn = "apiRebasePR" /\ pc = "git.createTree"
    /\ nObjs' = nObjs + 1
    /\ newObj' = NewSha(nObjs + 1)
    /\ writes' = Append(writes, [call |-> "createTree", sha |-> NewSha(nObjs + 1),
                                  base_tree |-> BaseTree, tree |-> treeUpdates])
    /\ pc' = "git.createCommit"
    /\ UNCHANGED <<fn, result, apiFailed, logs, commits, changedFiles, refs, i,
                   currentSha, treeUpdates, notApi>>

\* lines 174-182: newTree.sha is the object just created, baseSha the base head
RebaseCreateCommit ==
    /\ fn = "apiRebasePR" /\ pc = "git.createCommit"
    /\ CreateCommit(newObj, <<refs[BaseBranch]>>)
    /\ pc' = "git.updateRef"
    /\ UNCHANGED <<fn, result, apiFailed, logs, commits, changedFiles, refs, i,
                   currentSha, treeUpdates, notApi>>

\* lines 185-193
RebaseUpdateRef ==
    /\ fn = "apiRebasePR" /\ pc = "git.updateRef"
    /\ UpdateRef(PrBranch, newObj, TRUE)
    /\ pc' = "done"
    /\ result' = Return([rebaseNeeded |-> TRUE, result |-> "success", sha |-> newObj])
    /\ logs' = Append(logs, Log("info", "Rebased PR branch"))
    /\ UNCHANGED <<fn, apiFailed, commits, changedFiles, nObjs, i, currentSha,
                   treeUpdates, newObj, notApi>>

RebaseCalls == {"pulls.get", "pulls.listCommits", "repos.getCommit", "git.getRef",
                "git.getCommit", "git.createTree", "git.createCommit", "git.updateRef"}

\* lines 195-198: the call at pc fails; the error is logged and returned, not thrown
RebaseCatch ==
    /\ fn = "apiRebasePR" /\ pc \in RebaseCalls
    /\ apiFailed' = apiFailed \cup {pc}
    /\ result' = RebaseFailed(pc)
    /\ logs' = Append(logs, Log("error", "Rebase failed"))
    /\ pc' = "done"
    /\ UNCHANGED <<fn, apiVars, notApi>>

\* lines 195-198, from inside the loop: the PR-side read of a file that is not
\* removed fails (line 107), or the blob creation of a differing file (line 155)
RebaseLoopCatch ==
    /\ fn = "apiRebasePR" /\ pc = "files" /\ i <= Len(changedFiles)
    /\ LET file == changedFiles[i]
       IN /\ file.status # "removed"
          /\ \/ /\ apiFailed' = apiFailed \cup {"repos.getContent(pr)"}
                /\ result' = RebaseFailed("repos.getContent(pr)")
             \/ \E baseExists \in (IF file.base = Absent THEN {FALSE} ELSE {TRUE, FALSE}) :
                  /\ IsDifferent(file.status, baseExists, Decode(file.pr),
                                 IF baseExists THEN Decode(file.base) ELSE "")
                  /\ apiFailed' = apiFailed \cup {"git.createBlob"} \cup
                        (IF baseExists THEN {} ELSE {BaseReadFailure(file)})
                  /\ result' = RebaseFailed("git.createBlob")
    /\ logs' = Append(logs, Log("error", "Rebase failed"))
    /\ pc' = "done"
    /\ UNCHANGED <<fn, apiVars, notApi>>

\* --------------------------------------------------------- apiCherryPickPR
InitCherryPick ==
    /\ Start("apiCherryPickPR", "pulls.get")
    /\ commits \in CommitLists
    /\ changedFiles = <<>>
    /\ refs = InitRefs(commits)
    /\ writes = <<>> /\ nObjs = 0 /\ i = 0
    /\ currentSha = NoSha /\ treeUpdates = <<>> /\ newObj = NoSha
    /\ ApprovalIdle /\ ResolverIdle /\ PipelineIdle /\ ProbeIdle

\* lines 213-223: PR info and the base branch head
CherryPickGetPR ==
    /\ fn = "apiCherryPickPR" /\ pc \in {"pulls.get", "git.getRef(base)"}
    /\ pc' = IF pc = "pulls.get" THEN "git.getRef(base)" ELSE "pulls.listCommits"
    /\ UNCHANGED <<fn, result, apiFailed, logs, apiVars, notApi>>

\* lines 226-236
CherryPickListCommits ==
    /\ fn = "apiCherryPickPR" /\ pc = "pulls.listCommits"
    /\ IF Len(commits) = 0
       THEN /\ pc' = "done"
            /\ result' = Return([cherryPickNeeded |-> FALSE, result |-> "skipped"])
            /\ logs' = Append(logs, Log("info", "no commits to cherry-pick"))
       ELSE /\ pc' = "git.getRef(pr)"
            /\ UNCHANGED <<result, logs>>
    /\ UNCHANGED <<fn, apiFailed, apiVars, notApi>>

\* lines 239-244
CherryPickGetPrRef ==
    /\ fn = "apiCherryPickPR" /\ pc = "git.getRef(pr)"
    /\ pc' = "git.createRef"
    /\ UNCHANGED <<fn, result, apiFailed, logs, apiVars, notApi>>

\* lines 247-256: the temporary branch starts at the base head
CherryPickCreateRef ==
    /\ fn = "apiCherryPickPR" /\ pc = "git.createRef"
    /\ refs[TempBranch] = NoSha
    /\ refs' = [refs EXCEPT ![TempBranch] = refs[BaseBranch]]
    /\ writes' = Append(writes, [call |-> "createRef", ref |-> TempBranch,
                                  sha |-> refs[BaseBranch]])
    /\ currentSha' = refs[BaseBranch]
    /\ i' = 1
    /\ pc' = IF Len(commits) >= 1 THEN "replay" ELSE "git.updateRef(pr)"
    /\ UNCHANGED <<fn, result, apiFailed, logs, commits, changedFiles, nObjs,
                   treeUpdates, newObj, notApi>>

\* lines 273-284: the options of the commit that replays commitData
CherryPickCommitOptions(commitData, current, baseSha) ==
    [tree |-> commitData.tree, parents |-> <<current>>]

\* lines 258-286: read the commit and its tree, create the new commit
CherryPickReplay ==
    /\ fn = "apiCherryPickPR" /\ pc = "replay"
    /\ LET o == CherryPickCommitOptions(GetCommit(commits[i].sha), currentSha,
                                        refs[BaseBranch])
       IN CreateCommit(o.tree, o.parents)
    /\ currentSha' = NewSha(nObjs + 1)
    /\ pc' = "git.updateRef(temp)"
    /\ UNCHANGED <<fn, result, apiFailed, logs, commits, changedFiles, refs, i,
                   treeUpdates, notApi>>

\* lines 289-295: the temporary branch follows, without force; next commit
CherryPickUpdateTemp ==
    /\ fn = "apiCherryPickPR" /\ pc = "git.updateRef(temp)"
    /\ FastForward(TempBranch, currentSha)
    /\ UpdateRef(TempBranch, currentSha, FALSE)
    /\ i' = i + 1
    /\ pc' = IF i < Len(commits) THEN "replay" ELSE "git.updateRef(pr)"
    /\ UNCHANGED <<fn, result, apiFailed, logs, commits, changedFiles, nObjs,
                   currentSha, treeUpdates, newObj, notApi>>

\* lines 298-304
CherryPickUpdatePr ==
    /\ fn = "apiCherryPickPR" /\ pc = "git.updateRef(pr)"
    /\ UpdateRef(PrBranch, currentSha, TRUE)
    /\ pc' = "git.deleteRef"
    /\ UNCHANGED <<fn, result, apiFailed, logs, commits, changedFiles, nObjs, i,
                   currentSha, treeUpdates, newObj, notApi>>

\* the same return with the temporary branch left behind
CherryPickKeepsTemp ==
    /\ fn = "apiCherryPickPR" /\ pc = "git.deleteRef"
    /\ pc' = "done"
    /\ result' = Return([cherryPickNeeded |-> TRUE, result |-> "success",
                         sha |-> currentSha])
    /\ logs' = Append(logs, Log("info", "Cherry-pick completed"))
    /\ UNCHANGED <<fn, apiFailed, apiVars, notApi>>

\* lines 307-314
CherryPickDeleteRef ==
    /\ fn = "apiCherryPickPR" /\ pc = "git.deleteRef"
    /\ refs' = [refs EXCEPT ![TempBranch] = NoSha]
    /\ writes' = Append(writes, [call |-> "deleteRef", ref |-> TempBranch])
    /\ pc' = "done"
    /\ result' = Return([cherryPickNeeded |-> TRUE, result |-> "success",
                         sha |-> currentSha])
    /\ logs' = Append(logs, Log("info", "Cherry-pick completed"))
    /\ UNCHANGED <<fn, apiFailed, commits, changedFiles, nObjs, i, currentSha,
                   treeUpdates, newObj, notApi>>

\* the calls made at each position
CherryPickCalls ==
    IF pc = "replay" THEN {"git.getCommit", "git.getTree", "git.createCommit"}
    ELSE IF pc \in {"pulls.get", "git.getRef(base)", "pulls.listCommits", "git.getRef(pr)",
                    "git.createRef", "git.updateRef(temp)", "git.updateRef(pr)",
                    "git.deleteRef"}
    THEN {pc} ELSE {}

\* the same catch block with the temporary branch deleted on the way out
CherryPickCatchCleansUp ==
    /\ fn = "apiCherryPickPR"
    /\ \E call \in CherryPickCalls :
         /\ apiFailed' = apiFailed \cup {call}
         /\ result' = Return([cherryPickNeeded |-> TRUE, result |-> "failed",
                              error |-> call])
    /\ refs' = [refs EXCEPT ![TempBranch] = NoSha]
    /\ logs' = Append(logs, Log("error", "Error cherry-picking PR"))
    /\ pc' = "done"
    /\ UNCHANGED <<fn, commits, changedFiles, writes, nObjs, i, currentSha, treeUpdates,
                   newObj, notApi>>

\* lines 315-318: a call fails; the error is logged and returned, not thrown
CherryPickCatch ==
    /\ fn = "apiCherryPickPR"
    /\ \E call \in CherryPickCalls :
         /\ apiFailed' = apiFailed \cup {call}
         /\ result' = Return([cherryPickNeeded |-> TRUE, result |-> "failed",
                              error |-> call])
    /\ logs' = Append(logs, Log("error", "Error cherry-picking PR"))
    /\ pc' = "done"
    /\ UNCHANGED <<fn, apiVars, notApi>>

\* -------------------------------------------------------- checkPrApprovals
Logins == {"alice", "bob"}
ReviewStates == {"APPROVED", "CHANGES_REQUESTED", "COMMENTED"}
\* pulls.listReviews answers in chronological order
ReviewLists == SeqsUpTo([user : Logins, state : ReviewStates], MaxReviews)

notApproval == <<apiVars, resolverVars, pipelineVars, probeVars>>

InitApprovals ==
    /\ Start("checkPrApprovals", "pulls.listReviews")
    /\ reviews \in ReviewLists
    /\ latestByUser = <<>>
    /\ ApiIdle /\ ResolverIdle /\ PipelineIdle /\ ProbeIdle

\* lines 525-531
ApprovalsListReviews ==
    /\ fn = "checkPrApprovals" /\ pc = "pulls.listReviews"
    /\ pc' = "reviews"
    /\ UNCHANGED <<fn, result, apiFailed, logs, approvalVars, notApproval>>

\* lines 525-529: the listing fails; nothing catches it
ApprovalsThrow ==
    /\ fn = "checkPrApprovals" /\ pc = "pulls.listReviews"
    /\ apiFailed' = apiFailed \cup {pc}
    /\ result' = Throw(pc)
    /\ pc' = "done"
    /\ UNCHANGED <<fn, logs, approvalVars, notApproval>>

\* line 533: latestByUser[review.user.login] = review.state
RecordReviewKeepFirst(latest, review) ==
    IF review.user \in DOMAIN latest THEN latest
    ELSE [u \in DOMAIN latest \cup {review.user} |->
            IF u = review.user THEN review.state ELSE latest[u]]
RecordReview(latest, review) ==
    [u \in DOMAIN latest \cup {review.user} |->
        IF u = review.user THEN review.state ELSE latest[u]]

\* lines 532-534: one iteration
ApprovalsRecord ==
    /\ fn = "checkPrApprovals" /\ pc = "reviews"
    /\ i < Len(reviews)
    /\ latestByUser' = RecordReview(latestByUser, reviews[i + 1])
    /\ i' = i + 1
    /\ UNCHANGED <<fn, pc, result, apiFailed, logs, reviews, commits, changedFiles, refs,
                   writes, nObjs, currentSha, treeUpdates, newObj, resolverVars,
                   pipelineVars, probeVars>>

\* line 535-537: Object.values(latestByUser).filter(s => s === state).length
CountState(latest, state) == Cardinality({u \in DOMAIN latest : latest[u] = state})

\* lines 535-542
ApprovalsCount ==
    /\ fn = "checkPrApprovals" /\ pc = "reviews" /\ i = Len(reviews)
    /\ result' = Return([approvalCount |-> CountState(latestByUser, "APPROVED"),
                         changeRequestCount |->
                             CountState(latestByUser, "CHANGES_REQUESTED")])
    /\ pc' = "done"
    /\ UNCHANGED <<fn, apiFailed, logs, approvalVars, notApproval>>

\* ---------------------------------------------- determinePRBranchAndNumber
Null == "null"          \* prBranch = null (line 983)
NullNumber == -999      \* prNumber = null (line 984); no PR has this number
BranchNames == {"br1", "br2"}
\* repos.listBranchesForHeadCommit: distinct branch names, or [] when the call fails
BranchLists ==
    {bs \in SeqsUpTo(BranchNames, Cardinality(BranchNames)) :
        \A a, b \in DOMAIN bs : a # b => bs[a] # bs[b]}
\* repos.listPullRequestsAssociatedWithCommit: merged_at = 0 stands for null; only a
\* closed PR can be merged; the k-th PR of the list has number 10 + k
PrShapes ==
    {p \in [state : {"open", "closed"}, merged_at : 0..2, head : BranchNames] :
        p.state = "open" => p.merged_at = 0}
PrLists ==
    {[k \in DOMAIN ps |->
        [state |-> ps[k].state, merged_at |-> ps[k].merged_at, head |-> ps[k].head,
         number |-> 10 + k]] : ps \in SeqsUpTo(PrShapes, MaxPRs)}

\* Array.prototype.sort with (a, b) => b.merged_at - a.merged_at: a stable sort,
\* latest first
SortByMergedAtDescKeepsOrder(ps) == ps
RECURSIVE SortByMergedAtDesc(_)
SortByMergedAtDesc(ps) ==
    IF Len(ps) <= 1 THEN ps
    ELSE LET rest == SortByMergedAtDesc(Tail(ps))
             before == SelectSeq(rest, LAMBDA q : q.merged_at > Head(ps).merged_at)
             after == SelectSeq(rest, LAMBDA q : q.merged_at <= Head(ps).merged_at)
         IN before \o <<Head(ps)>> \o after

Resolved(branch, number, warned) ==
    [prBranch |-> branch, prNumber |-> number, setFailed |-> FALSE, warning |-> warned,
     why |-> ""]
\* lines 1022-1032: core.setFailed(why), and both stay null
Unresolved(why) ==
    [prBranch |-> Null, prNumber |-> NullNumber, setFailed |-> TRUE, warning |-> FALSE,
     why |-> why]

\* the same rules with the open PR looked at before the base branch
DeterminePRBranchAndNumberOpenFirst(baseBranch, isShaOnBaseBranch, branchesContainingSha, prs) ==
    LET openPRs == SelectSeq(prs, LAMBDA pr : pr.state = "open")
    IN IF Len(openPRs) = 1 THEN Resolved(openPRs[1].head, openPRs[1].number, FALSE)
       ELSE IF isShaOnBaseBranch THEN Resolved(baseBranch, 0, FALSE)
       ELSE Unresolved("Could not determine PR or branch")
\* the same rules with an ambiguous head resolved to the first candidate
DeterminePRBranchAndNumberGuess(baseBranch, isShaOnBaseBranch, branchesContainingSha, prs) ==
    IF isShaOnBaseBranch THEN Resolved(baseBranch, 0, FALSE)
    ELSE IF Len(branchesContainingSha) >= 1
    THEN Resolved(branchesContainingSha[1], -1, FALSE)
    ELSE Unresolved("Could not determine PR or branch")

\* the same rules with the lone head branch reported under the base-branch number
DeterminePRBranchAndNumberBranchZero(baseBranch, isShaOnBaseBranch, branchesContainingSha, prs) ==
    LET openPRs == SelectSeq(prs, LAMBDA pr : pr.state = "open")
        mergedPRs == SelectSeq(prs, LAMBDA pr : pr.merged_at # 0)
    IN IF isShaOnBaseBranch THEN Resolved(baseBranch, 0, FALSE)
       ELSE IF Len(openPRs) = 1 THEN Resolved(openPRs[1].head, openPRs[1].number, FALSE)
       ELSE IF Len(mergedPRs) >= 1
       THEN Resolved(SortByMergedAtDesc(mergedPRs)[1].head,
                     SortByMergedAtDesc(mergedPRs)[1].number, FALSE)
       ELSE IF Len(branchesContainingSha) = 1
       THEN Resolved(branchesContainingSha[1], 0, FALSE)
       ELSE Unresolved("Could not determine PR or branch")
\* lines 982-1035
DeterminePRBranchAndNumber(baseBranch, isShaOnBaseBranch, branchesContainingSha, prs) ==
    LET openPRs == SelectSeq(prs, LAMBDA pr : pr.state = "open")
        mergedPRs == SelectSeq(prs, LAMBDA pr : pr.merged_at # 0)
    IN IF isShaOnBaseBranch THEN Resolved(baseBranch, 0, FALSE)
       ELSE IF Len(openPRs) = 1
       THEN Resolved(openPRs[1].head, openPRs[1].number,
                     Len(branchesContainingSha) = 1
                        /\ branchesContainingSha[1] # openPRs[1].head)
       ELSE IF Len(mergedPRs) >= 1
       THEN LET latest == SortByMergedAtDesc(mergedPRs)[1]
            IN Resolved(latest.head, latest.number, FALSE)
       ELSE IF Len(branchesContainingSha) = 1
       THEN Resolved(branchesContainingSha[1], -1, FALSE)
       ELSE IF Len(branchesContainingSha) > 1
       THEN Unresolved("HEAD of multiple branches and has no PR")
       ELSE Unresolved("Could not determine PR or branch")

\* ---------------------------------------------------- deriveRepoNameFromUrl
\* A URL is a sequence of tokens: the prefixes the code tests for, the separators
\* "/" and ":", the suffix ".git" and name parts.
IndexOf(s, t) ==
    IF \E k \in DOMAIN s : s[k] = t
    THEN CHOOSE k \in DOMAIN s : s[k] = t /\ \A j \in 1..(k - 1) : s[j] # t
    ELSE 0
\* String.prototype.replace(t, ""): the first occurrence only
RemoveFirst(s, t) ==
    IF IndexOf(s, t) = 0 THEN s
    ELSE SubSeq(s, 1, IndexOf(s, t) - 1) \o SubSeq(s, IndexOf(s, t) + 1, Len(s))
\* String.prototype.split on the separators seps
RECURSIVE Split(_, _)
Split(s, seps) ==
    IF \E k \in DOMAIN s : s[k] \in seps
    THEN LET k == CHOOSE j \in DOMAIN s : s[j] \in seps /\ \A h \in 1..(j - 1) : s[h] \notin seps
         IN <<SubSeq(s, 1, k - 1)>> \o Split(SubSeq(s, k + 1, Len(s)), seps)
    ELSE <<s>>
Undefined == <<"undefined">>
\* parts[k] with JavaScript's 0-based index
At(parts, k) == IF k + 1 \in DOMAIN parts THEN parts[k + 1] ELSE Undefined

\* lines 839-857
DeriveRepoNameFromUrl(url) ==
    IF Len(url) >= 1 /\ url[1] = "https://github.com/"
    THEN At(Split(RemoveFirst(RemoveFirst(url, "https://github.com/"), ".git"), {"/"}), 1)
    ELSE IF Len(url) >= 1 /\ url[1] = "git@github.com:"
    THEN At(Split(RemoveFirst(RemoveFirst(url, "git@github.com:"), ".git"), {"/"}), 1)
    ELSE IF Len(url) >= 1 /\ url[1] = "../"
    THEN RemoveFirst(RemoveFirst(url, "../"), ".git")
    ELSE RemoveFirst(Last(Split(url, {"/", ":"})), ".git")

\* lines 888-896
ComputeBaseBranch(baseRef, subDefaultBranch, isMergeIntoDefaultBranch) ==
    IF isMergeIntoDefaultBranch THEN subDefaultBranch ELSE baseRef

\* --------------------------------------------------------- enrichSubmodules
LibFoo == [name |-> "libfoo", path |-> "vendor/libfoo",
           url |-> <<"https://github.com/", "org", "/", "libfoo", ".git">>]
LibBar == [name |-> "libbar", path |-> "vendor/libbar",
           url |-> <<"git@github.com:", "org", "/", "libbar", ".git">>]
NoUrl == [name |-> "broken", path |-> "vendor/broken", url |-> <<>>]
\* Object.entries(rawSubmodules), in insertion order
Manifests == {<<LibFoo>>, <<NoUrl, LibFoo>>, <<LibFoo, LibBar>>}
PointerSha == <<"s", 1>>    \* the submodule pointer at the PR head

notResolver == <<commits, changedFiles, refs, writes, nObjs, currentSha, treeUpdates,
                 newObj, approvalVars, cwd, conflicted, staged, exited, probeVars>>

\* What the submodule's repository answers about the pointer sha: shaInBranch (false
\* when its call fails), findBranchesForHeadCommit and findPRsForCommit ([] when
\* theirs fail).
HostStates ==
    [isShaOnBaseBranch : BOOLEAN, branchesContainingSha : BranchLists, prs : PrLists]
OnBaseOnly == [isShaOnBaseBranch |-> TRUE, branchesContainingSha |-> <<>>, prs |-> <<>>]
\* the second repository of a manifest: the sha is on its base branch, or the head
\* of two branches and of no PR
FewHostStates ==
    {OnBaseOnly,
     [isShaOnBaseBranch |-> FALSE, branchesContainingSha |-> <<"br1", "br2">>,
      prs |-> <<>>]}

InitEnrich ==
    /\ Start("enrichSubmodules", "submodules")
    /\ rawSubmodules \in Manifests
    /\ enriched = <<>> /\ setFailedCalled = FALSE
    /\ host \in {[libfoo |-> f, libbar |-> b] :
                    f \in HostStates,
                    b \in IF Len(rawSubmodules) < 2 THEN {OnBaseOnly} ELSE FewHostStates}
    /\ args \in [baseRef : {"release"}, isMergeIntoDefaultBranch : BOOLEAN]
    /\ cwd = "" /\ conflicted = <<>> /\ staged = <<>> /\ exited = FALSE
    /\ ApiIdle /\ ApprovalIdle /\ ProbeIdle

\* enriched[name] = entry
Put(map, name, entry) ==
    [n \in DOMAIN map \cup {name} |-> IF n = name THEN entry ELSE map[n]]

\* lines 769-776
BaseEntry(data, subDefaultBranch) ==
    [path |-> data.path, url |-> data.url,
     repoName |-> DeriveRepoNameFromUrl(data.url),
     subDefaultBranch |-> subDefaultBranch,
     baseBranch |-> ComputeBaseBranch(args.baseRef, subDefaultBranch,
                                      args.isMergeIntoDefaultBranch)]
\* lines 810-815
FullEntry(entry, sha, r) ==
    [path |-> entry.path, url |-> entry.url, repoName |-> entry.repoName,
     subDefaultBranch |-> entry.subDefaultBranch, baseBranch |-> entry.baseBranch,
     sha |-> sha, prBranch |-> r.prBranch, prNumber |-> r.prNumber]

\* lines 769-776, 818-820: the catch block only warns; enriched[name] stays as it
\* was set before the try block
AfterPointerErrorDropsEntry(map, name, entry) == map
AfterPointerError(map, name, entry) == Put(map, name, entry)

\* lines 752-821: one iteration of the loop over the submodules.
\* content: what repos.getContent answers for the submodule path at the PR head.
EnrichSubmodule ==
    /\ fn = "enrichSubmodules" /\ pc = "submodules" /\ i < Len(rawSubmodules)
    /\ i' = i + 1
    /\ LET data == rawSubmodules[i + 1]
       IN \/ /\ data.path = "" \/ data.url = <<>>               \* line 755
             /\ UNCHANGED <<enriched, setFailedCalled, logs, apiFailed>>
          \/ /\ data.path # "" /\ data.url # <<>>               \* line 763
             /\ apiFailed' = apiFailed \cup {"repos.get"}
             /\ logs' = Append(logs, Log("warning", <<"Failed repo lookup", data.name>>))
             /\ UNCHANGED <<enriched, setFailedCalled>>
          \/ /\ data.path # "" /\ data.url # <<>>
             /\ \E content \in {"error", "file", "submodule"} :
                  LET entry == BaseEntry(data, "main")
                      h == host[data.name]
                      r == DeterminePRBranchAndNumber(entry.baseBranch,
                              h.isShaOnBaseBranch, h.branchesContainingSha, h.prs)
                  IN IF content = "error"                       \* lines 818-820
                     THEN /\ enriched' = AfterPointerError(enriched, data.name, entry)
                          /\ apiFailed' = apiFailed \cup {"repos.getContent"}
                          /\ logs' = Append(logs, Log("warning", <<"Error processing submodule",
                                                                data.name>>))
                          /\ UNCHANGED setFailedCalled
                     ELSE IF content = "file"                   \* lines 787-790
                     THEN /\ enriched' = Put(enriched, data.name, entry)
                          /\ UNCHANGED <<setFailedCalled, logs, apiFailed>>
                     ELSE /\ enriched' = Put(enriched, data.name,      \* lines 792-817
                                             FullEntry(entry, PointerSha, r))
                          /\ setFailedCalled' = (setFailedCalled \/ r.setFailed)
                          /\ logs' = logs \o
                               (IF r.warning
                                THEN <<Log("warning", <<"HEAD contradicts PR branch", data.name>>)>>
                                ELSE <<>>) \o
                               (IF r.setFailed THEN <<Log("setFailed", <<r.why, data.name>>)>>
                                ELSE <<>>) \o
                               <<Log("info", <<"Resolved", data.name>>)>>
                          /\ UNCHANGED apiFailed
    /\ UNCHANGED <<fn, pc, result, rawSubmodules, host, args, notResolver>>

\* line 831
EnrichReturn ==
    /\ fn = "enrichSubmodules" /\ pc = "submodules" /\ i = Len(rawSubmodules)
    /\ result' = Return(enriched)
    /\ pc' = "done"
    /\ UNCHANGED <<fn, apiFailed, logs, resolverVars, args, i, notResolver>>

\* ---------------------------------------------------- localGitMergePipeline
\* A path is the sequence of its characters.
SubS == <<"s">>
SubT == <<"t">>
\* the paths git may report as unmerged: a submodule path, a path under it, a path
\* that only starts with its name, and a path elsewhere
ConflictPaths == {SubS, <<"s", "/", "a">>, <<"s", "x">>, <<"a">>}
ConflictLists ==
    {c \in SeqsUpTo(ConflictPaths, MaxConflicts) :
        \A a, b \in DOMAIN c : a # b => c[a] # c[b]}
\* what the validating rebase prints: the phrases the code looks for (lines 446-449),
\* nothing when the command failed
RebaseOutputs == {{}, {"up to date"}, {"no rebase in progress"}, {"error"},
                  {"conflict"}, {"up to date", "error"}}
OriginalCwd == "workspace"

notPipeline == <<apiVars, approvalVars, resolverVars, probeVars>>

InitPipeline ==
    /\ Start("localGitMergePipeline", "chdir")
    /\ args \in [isBase : BOOLEAN, submodules : {<<>>, <<SubS>>, <<SubS, SubT>>},
                 submodulePath : {"", "vendor/libfoo"}]
    /\ cwd = OriginalCwd
    /\ conflicted = <<>> /\ staged = <<>> /\ exited = FALSE
    /\ ApiIdle /\ ApprovalIdle /\ ResolverIdle /\ ProbeIdle

\* String.prototype.startsWith
StartsWith(f, prefix) ==
    Len(f) >= Len(prefix) /\ SubSeq(f, 1, Len(prefix)) = prefix

\* lines 420-421: submodules.some(s => f === s || f.startsWith(`${s}/`))
InSubmoduleByName(f, submodules) ==
    \E k \in DOMAIN submodules : f = submodules[k] \/ StartsWith(f, submodules[k])
InSubmodule(f, submodules) ==
    \E k \in DOMAIN submodules :
        f = submodules[k] \/ StartsWith(f, submodules[k] \o <<"/">>)

\* lines 340-354, run(cmd, opts): the command is logged, then executed ("exec": it
\* exited 0, "exec failed": it did not); a failure with allowFail is logged as a
\* warning (one that fails without it throws: see PipelineThrow)
RanUnlogged(cmd, ok) ==
    IF ok THEN <<Log("exec", cmd)>>
    ELSE <<Log("exec failed", cmd),
           Log("warning", <<"Command failed (continuing)">> \o cmd),
           Log("warning", <<"stdout">>)>>
Ran(cmd, ok) ==
    IF ok THEN <<Log("info", <<"$">> \o cmd), Log("exec", cmd)>>
    ELSE <<Log("info", <<"$">> \o cmd), Log("exec failed", cmd),
           Log("warning", <<"Command failed (continuing)">> \o cmd),
           Log("warning", <<"stdout">>)>>

\* lines 356-368: enter the submodule; a failing chdir is only warned about
PipelineEnter ==
    /\ fn = "localGitMergePipeline" /\ pc = "chdir"
    /\ IF args.submodulePath # ""
       THEN \/ /\ cwd' = args.submodulePath
               /\ logs' = logs \o <<Log("info", <<"Changing directory">>),
                                    Log("info", <<"Successfully changed">>)>>
            \/ /\ cwd' = cwd
               /\ logs' = logs \o <<Log("info", <<"Changing directory">>),
                                    Log("warning", <<"Failed to validate submodule path">>)>>
       ELSE UNCHANGED <<cwd, logs>>
    /\ pc' = "git fetch tgt"
    /\ UNCHANGED <<fn, result, apiFailed, args, conflicted, staged, exited, notPipeline>>

WithSubmodules == args.isBase /\ Len(args.submodules) > 0

\* the commands whose output the code does not look at, and what follows each
PlainCommands == {"git fetch tgt", "git fetch pr", "git status", "git checkout -b pr",
                  "git submodule update", "git merge-base", "git log", "git reset --soft",
                  "git commit squash", "git commit --no-edit", "git push pr",
                  "git checkout tgt"}
After(p) ==
    CASE p = "git fetch tgt" -> "git fetch pr"
      [] p = "git fetch pr" -> "git status"
      [] p = "git status" -> "git checkout -b pr"
      [] p = "git checkout -b pr" ->
            IF WithSubmodules THEN "git submodule update" ELSE "git merge-base"
      [] p = "git submodule update" -> "git merge-base"
      [] p = "git merge-base" -> "git rev-list --count"
      [] p = "git log" -> "git reset --soft"
      [] p = "git reset --soft" -> "git commit squash"
      [] p = "git commit squash" -> "git rebase"
      [] p = "git commit --no-edit" -> "git rebase --continue"
      [] p = "git push pr" -> "git checkout tgt"
      [] p = "git checkout tgt" -> "git pull tgt"

\* lines 376-401, 437, 465-468, 477: a command that succeeds
PipelineRun ==
    /\ fn = "localGitMergePipeline" /\ pc \in PlainCommands
    /\ logs' = logs \o Ran(<<pc>>, TRUE)
    /\ pc' = After(pc)
    /\ UNCHANGED <<fn, result, apiFailed, pipelineVars, notPipeline>>

\* lines 392-404: the commit count decides whether to squash
PipelineCountCommits ==
    /\ fn = "localGitMergePipeline" /\ pc = "git rev-list --count"
    /\ \E commitCount \in 1..2 :
         /\ logs' = logs \o Ran(<<pc>>, TRUE) \o
                (IF commitCount > 1 THEN <<Log("info", <<"performing squash">>)>>
                 ELSE <<Log("info", <<"skipping squash">>)>>)
         /\ pc' = IF commitCount > 1 THEN "git log" ELSE "git rebase"
    /\ UNCHANGED <<fn, result, apiFailed, pipelineVars, notPipeline>>

\* lines 409-410, 472: the rebase; with submodules it may fail and the code goes on
PipelineRebase ==
    /\ fn = "localGitMergePipeline" /\ pc = "git rebase"
    /\ \E ok \in (IF WithSubmodules THEN BOOLEAN ELSE {TRUE}) :
         logs' = logs \o Ran(<<pc>>, ok)
    /\ pc' = IF WithSubmodules THEN "git diff" ELSE "git checkout tgt"
    /\ UNCHANGED <<fn, result, apiFailed, pipelineVars, notPipeline>>

\* lines 413-441: the unmerged paths and their triage
PipelineTriage ==
    /\ fn = "localGitMergePipeline" /\ pc = "git diff"
    /\ \E ok \in BOOLEAN, out \in ConflictLists :
         LET found == IF ok THEN out ELSE <<>>
             subConflicts ==
                 IF args.isBase
                 THEN SelectSeq(found, LAMBDA f : InSubmodule(f, args.submodules))
                 ELSE <<>>
             nonSubConflicts ==
                 SelectSeq(found, LAMBDA f : ~InSubmodule(f, args.submodules))
         IN /\ ~ok => out = <<>>
            /\ conflicted' = found
            /\ IF Len(found) > 0
               THEN IF Len(nonSubConflicts) > 0
                    THEN /\ logs' = logs \o Ran(<<pc>>, ok) \o
                              <<Log("warning", <<"Rebase conflicts detected">>),
                                Log("setFailed", nonSubConflicts),
                                Log("setOutput", nonSubConflicts)>>
                         /\ exited' = TRUE
                         /\ pc' = "exit"
                         /\ UNCHANGED i
                    ELSE /\ logs' = logs \o Ran(<<pc>>, ok) \o
                              <<Log("warning", <<"Rebase conflicts detected">>),
                                Log("info", <<"Submodule conflicts only">>)>>
                         /\ i' = 1
                         /\ pc' = "git add"
                         /\ UNCHANGED exited
               ELSE /\ logs' = logs \o Ran(<<pc>>, ok) \o
                         <<Log("info", <<"No rebase conflicts detected">>)>>
                    /\ pc' = "git rebase (validate)"
                    /\ UNCHANGED <<exited, i>>
    /\ UNCHANGED <<fn, result, apiFailed, args, cwd, staged, commits, changedFiles, refs,
                   writes, nObjs, currentSha, treeUpdates, newObj, approvalVars,
                   resolverVars, probeVars>>

\* line 436: subConflicts.forEach(sub => run(`git add "${sub}"`)); with no conflict
\* outside the submodules, subConflicts is the list of conflicts
PipelineAdd ==
    /\ fn = "localGitMergePipeline" /\ pc = "git add"
    /\ logs' = logs \o Ran(<<"git add", conflicted[i]>>, TRUE)
    /\ staged' = Append(staged, conflicted[i])
    /\ i' = i + 1
    /\ pc' = IF i < Len(conflicted) THEN "git add" ELSE "git commit --no-edit"
    /\ UNCHANGED <<fn, result, apiFailed, args, cwd, conflicted, exited, commits,
                   changedFiles, refs, writes, nObjs, currentSha, treeUpdates, newObj,
                   approvalVars, resolverVars, probeVars>>

\* line 438
PipelineContinue ==
    /\ fn = "localGitMergePipeline" /\ pc = "git rebase --continue"
    /\ \E ok \in BOOLEAN : logs' = logs \o Ran(<<pc>>, ok)
    /\ pc' = "git checkout tgt"
    /\ UNCHANGED <<fn, result, apiFailed, pipelineVars, notPipeline>>

\* lines 443-469: the validating rebase when no conflict was found
PipelineValidate ==
    /\ fn = "localGitMergePipeline" /\ pc = "git rebase (validate)"
    /\ \E ok \in BOOLEAN, printed \in RebaseOutputs :
         LET finalRebase == IF ok THEN printed ELSE {}
         IN /\ ~ok => printed = {}
            /\ IF finalRebase \cap {"up to date", "no rebase in progress"} # {}
               THEN /\ logs' = logs \o Ran(<<pc>>, ok) \o
                         <<Log("info", <<"Branch already up to date">>),
                           Log("info", <<"Pushing rebased changes to PR branch">>)>>
                    /\ pc' = "git push pr"
                    /\ UNCHANGED exited
               ELSE IF finalRebase \cap {"error", "conflict"} # {}
               THEN /\ logs' = logs \o Ran(<<pc>>, ok) \o
                         <<Log("setFailed", <<"unresolved conflicts remain">>),
                           Log("setOutput", <<"unresolved conflicts remain">>)>>
                    /\ exited' = TRUE
                    /\ pc' = "exit"
               ELSE /\ logs' = logs \o Ran(<<pc>>, ok) \o
                         <<Log("info", <<"Pushing rebased changes to PR branch">>)>>
                    /\ pc' = "git push pr"
                    /\ UNCHANGED exited
    /\ UNCHANGED <<fn, result, apiFailed, args, cwd, conflicted, staged, notPipeline>>

\* the same with the merge and the push of lines 487 and 491 not commented out
PipelineReturnMerging ==
    /\ fn = "localGitMergePipeline" /\ pc = "git pull tgt"
    /\ logs' = logs \o Ran(<<pc>>, TRUE) \o
            <<Log("info", <<"Merging PR branch">>)>> \o Ran(<<"git merge --ff-only">>, TRUE) \o
            <<Log("info", <<"Pushing changes">>)>> \o Ran(<<"git push tgt">>, TRUE) \o
            <<Log("info", <<"Successfully merged PR">>)>>
    /\ result' = Return("Successfully merged PR #n from prBranch into tgtBranch")
    /\ pc' = "done"
    /\ UNCHANGED <<fn, apiFailed, pipelineVars, notPipeline>>

\* lines 478-496: pull, then (the merge and the push to the target being commented
\* out, lines 487 and 491) return from inside the try block; the directory change of
\* lines 503-511 is never reached
PipelineReturn ==
    /\ fn = "localGitMergePipeline" /\ pc = "git pull tgt"
    /\ logs' = logs \o Ran(<<pc>>, TRUE) \o
            <<Log("info", <<"Merging PR branch">>), Log("info", <<"Pushing changes">>),
              Log("info", <<"Successfully merged PR">>)>>
    /\ result' = Return("Successfully merged PR #n from prBranch into tgtBranch")
    /\ pc' = "done"
    /\ UNCHANGED <<fn, apiFailed, pipelineVars, notPipeline>>

\* the command run at pc
Command ==
    IF pc = "git add" THEN <<"git add", conflicted[i]>> ELSE <<pc>>
\* the positions whose command is run with allowFail (lines 410, 413, 438, 445)
AllowFail ==
    {"git diff", "git rebase --continue", "git rebase (validate)"}
        \cup (IF WithSubmodules THEN {"git rebase"} ELSE {})

\* lines 349, 498-501: a command without allowFail exits non-zero; run throws, the
\* catch block logs the error and throws it again
PipelineThrow ==
    /\ fn = "localGitMergePipeline"
    /\ pc \in (PlainCommands \cup {"git rev-list --count", "git rebase", "git add",
                                   "git pull tgt"}) \ AllowFail
    /\ logs' = logs \o <<Log("info", <<"$">> \o Command), Log("exec failed", Command),
                         Log("error", <<"Error in git merge pipeline">>)>>
    /\ result' = Throw(Command)
    /\ pc' = "done"
    /\ UNCHANGED <<fn, apiFailed, pipelineVars, notPipeline>>

\* ------------------------------------------------------- getConflictedFiles
notProbe == <<apiVars, approvalVars, resolverVars, cwd, conflicted, staged, exited>>

\* data.files of a comparison: distinct file names, in the order the host lists them
ChangedLists == ConflictLists

InitProbe ==
    /\ Start("getConflictedFiles", "pulls.get")
    /\ args \in [mergeable : {"true", "false", "null"},      \* pr.mergeable
                 status : {"diverged", "ahead"},             \* comp.status
                 baseChanged : ChangedLists,   \* merge base .. base tip
                 headChanged : ChangedLists,   \* merge base .. PR tip
                 submodulePaths : {<<>>, <<SubS>>}]
    /\ cwd = "" /\ conflicted = <<>> /\ staged = <<>> /\ exited = FALSE
    /\ ProbeIdle
    /\ ApiIdle /\ ApprovalIdle /\ ResolverIdle

\* lines 656-662, 698-700
ProbeGetPR ==
    /\ fn = "getConflictedFiles" /\ pc = "pulls.get"
    /\ IF args.mergeable = "false"
       THEN /\ logs' = Append(logs, Log("info", <<"not mergeable; analyzing">>))
            /\ pc' = "repos.compareCommits"
       ELSE /\ logs' = Append(logs, Log("info", <<"mergeable, no conflicts detected">>))
            /\ pc' = "partition"
    /\ UNCHANGED <<fn, result, apiFailed, args, probeVars, notProbe>>

\* line 656: pulls.get fails; it is outside every try block
ProbeThrow ==
    /\ fn = "getConflictedFiles" /\ pc = "pulls.get"
    /\ apiFailed' = apiFailed \cup {"pulls.get"}
    /\ result' = Throw(<<"pulls.get">>)
    /\ pc' = "done"
    /\ UNCHANGED <<fn, logs, args, probeVars, notProbe>>

\* lines 665-670, 695-697: the base/head comparison; its failure is only warned about
ProbeCompare ==
    /\ fn = "getConflictedFiles" /\ pc = "repos.compareCommits"
    /\ \/ /\ pc' = IF args.status = "diverged" THEN "getChangedFiles(base)" ELSE "partition"
          /\ UNCHANGED <<apiFailed, logs>>
       \/ /\ apiFailed' = apiFailed \cup {"repos.compareCommits"}
          /\ logs' = Append(logs, Log("warning", <<"Could not compute conflict info">>))
          /\ pc' = "partition"
    /\ UNCHANGED <<fn, result, args, probeVars, notProbe>>

\* lines 673-682: getChangedFiles(ref); a failing comparison gives the empty set
GetChangedFiles(files, ok) == IF ok THEN files ELSE <<>>

\* line 688: Array.from(baseFiles).filter(file => headFiles.has(file))
CandidateConflictsOfBase(base, head) == base
CandidateConflicts(base, head) == SelectSeq(base, LAMBDA file : file \in Range(head))

\* line 684
ProbeBaseFiles ==
    /\ fn = "getConflictedFiles" /\ pc = "getChangedFiles(base)"
    /\ \E ok \in BOOLEAN :
         /\ baseFiles' = GetChangedFiles(args.baseChanged, ok)
         /\ apiFailed' = IF ok THEN apiFailed
                         ELSE apiFailed \cup {"repos.compareCommits(base)"}
    /\ pc' = "getChangedFiles(head)"
    /\ UNCHANGED <<fn, result, logs, args, headFiles, filesWithConflicts, notProbe>>

\* lines 685-693
ProbeHeadFiles ==
    /\ fn = "getConflictedFiles" /\ pc = "getChangedFiles(head)"
    /\ \E ok \in BOOLEAN :
         /\ headFiles' = GetChangedFiles(args.headChanged, ok)
         /\ apiFailed' = IF ok THEN apiFailed
                         ELSE apiFailed \cup {"repos.compareCommits(head)"}
    /\ filesWithConflicts' = CandidateConflicts(baseFiles, headFiles')
    /\ logs' = IF Len(filesWithConflicts') > 0
               THEN logs \o <<Log("info", <<"Found potentially conflicting files">>),
                              Log("info", <<"Potentially conflicting files",
                                            filesWithConflicts'>>)>>
               ELSE logs
    /\ pc' = "partition"
    /\ UNCHANGED <<fn, result, args, baseFiles, notProbe>>

\* lines 708-710: submodulePaths.some(subPath => filename === subPath ||
\* filename.startsWith(`${subPath}/`))
IsInSubmodule(filename, submodulePaths) ==
    \E k \in DOMAIN submodulePaths :
        filename = submodulePaths[k] \/ StartsWith(filename, submodulePaths[k] \o <<"/">>)

\* line 719
HasNonSubmoduleConflictNever(nonSubmoduleConflicts) == FALSE
HasNonSubmoduleConflict(nonSubmoduleConflicts) == Len(nonSubmoduleConflicts) > 0

\* lines 702-733
ProbePartition ==
    /\ fn = "getConflictedFiles" /\ pc = "partition"
    /\ LET submoduleConflicts ==
               SelectSeq(filesWithConflicts,
                         LAMBDA f : IsInSubmodule(f, args.submodulePaths))
           nonSubmoduleConflicts ==
               SelectSeq(filesWithConflicts,
                         LAMBDA f : ~IsInSubmodule(f, args.submodulePaths))
       IN IF HasNonSubmoduleConflict(nonSubmoduleConflicts)
          THEN /\ logs' = Append(logs, Log("setFailed", nonSubmoduleConflicts))
               /\ result' = Throw(<<"Workflow stopped because of base conflicts",
                                    nonSubmoduleConflicts>>)
          ELSE /\ logs' = logs \o
                     <<Log("info", <<"Submodule conflicts", submoduleConflicts>>),
                       Log("info", <<"Non-submodule conflicts", nonSubmoduleConflicts>>)>>
               /\ result' = Return(
                     [files_with_conflicts |-> submoduleConflicts \o nonSubmoduleConflicts,
                      submodule_conflicts |-> submoduleConflicts,
                      non_submodule_conflicts |-> nonSubmoduleConflicts,
                      mergeable |-> args.mergeable])
    /\ pc' = "done"
    /\ UNCHANGED <<fn, apiFailed, args, probeVars, notProbe>>

\* ------------------------------------------- deriveRepoNameFromUrl, called alone
\* Repository names as token sequences: libfoo, and docs.github.io, whose text holds
\* ".git" before the end.
RepoNames == {<<"libfoo">>, <<"docs", ".git", "hub.io">>}
\* what stands before the name: the two hosting forms with the org, the relative
\* form, and another host
UrlHeads == {<<"https://github.com/", "org", "/">>, <<"git@github.com:", "org", "/">>,
             <<"../">>, <<"https", ":", "/", "/", "example.com", "/", "org", "/">>}

InitDerive ==
    /\ Start("deriveRepoNameFromUrl", "call")
    /\ args \in {[head |-> h, name |-> n, url |-> h \o n \o suffix] :
                    h \in UrlHeads, n \in RepoNames, suffix \in {<<>>, <<".git">>}}
    /\ cwd = "" /\ conflicted = <<>> /\ staged = <<>> /\ exited = FALSE
    /\ ProbeIdle /\ ApiIdle /\ ApprovalIdle /\ ResolverIdle

\* lines 839-857
DeriveReturn ==
    /\ fn = "deriveRepoNameFromUrl" /\ pc = "call"
    /\ result' = Return(DeriveRepoNameFromUrl(args.url))
    /\ pc' = "done"
    /\ UNCHANGED <<fn, apiFailed, logs, args, probeVars, notProbe>>

Init == InitSquash \/ InitRebase \/ InitCherryPick \/ InitApprovals \/ InitEnrich
        \/ InitPipeline \/ InitProbe \/ InitDerive
Next == \/ SquashGetPR \/ SquashListCommits \/ SquashGetCommits \/ SquashCreateCommit
        \/ SquashUpdateRef \/ SquashCatch
        \/ RebaseGetPR \/ RebaseListCommits \/ RebaseGetCommit \/ RebaseGetBase
        \/ RebaseFile \/ RebaseAfterLoop \/ RebaseCreateTree \/ RebaseCreateCommit
        \/ RebaseUpdateRef \/ RebaseCatch \/ RebaseLoopCatch
        \/ CherryPickGetPR \/ CherryPickListCommits \/ CherryPickGetPrRef
        \/ CherryPickCreateRef \/ CherryPickReplay \/ CherryPickUpdateTemp
        \/ CherryPickUpdatePr \/ CherryPickDeleteRef \/ CherryPickCatch
        \/ ApprovalsListReviews \/ ApprovalsThrow \/ ApprovalsRecord \/ ApprovalsCount
        \/ EnrichSubmodule \/ EnrichReturn
        \/ PipelineEnter \/ PipelineRun \/ PipelineCountCommits \/ PipelineRebase
        \/ PipelineTriage \/ PipelineAdd \/ PipelineContinue \/ PipelineValidate
        \/ PipelineReturn \/ PipelineThrow
        \/ ProbeGetPR \/ ProbeThrow \/ ProbeCompare \/ ProbeBaseFiles \/ ProbeHeadFiles
        \/ ProbePartition \/ DeriveReturn
Spec == Init /\ [][Next]_vars

\* ------------------------------------------------------------- properties
Done == pc = "done"
Returned == Done /\ result.kind = "return"
\* the commits the host was asked to create, in order
NewCommits == SelectSeq(writes, LAMBDA w : w.call = "createCommit")
\* the calls that changed the hosting state
NoWrites == writes = <<>> /\ refs = InitRefs(commits)

\* C1: apiSquashPR on a PR whose commit list has 0 or 1 entries never issues a write
\* call (no createCommit, no updateRef: the host is left as it was), it stops right
\* after listing the commits, and it returns { squashNeeded: false, result:
\* "skipped" } whenever its two reads succeed.
C1_SquashSkipsSmallPR ==
    (fn = "apiSquashPR" /\ Len(commits) <= 1) =>
        /\ NoWrites
        /\ pc \in {"pulls.get", "pulls.listCommits", "done"}
        /\ (Done /\ apiFailed = {}) =>
              result = Return([squashNeeded |-> FALSE, result |-> "skipped"])
C1_Witness ==
    /\ fn = "apiSquashPR" /\ Len(commits) = 1 /\ Done
    /\ result = Return([squashNeeded |-> FALSE, result |-> "skipped"])
    /\ NoWrites

\* C2: apiSquashPR on a PR with 2 or more commits, when no API call fails, creates
\* exactly one commit, whose only parent is the first parent of the PR's first commit
\* and whose tree is the tree of the PR's last commit; the PR head branch is
\* force-updated to that commit, and its sha is the one returned.
C2_SquashOneCommit ==
    (fn = "apiSquashPR" /\ Len(commits) >= 2 /\ Done /\ apiFailed = {}) =>
        /\ Len(NewCommits) = 1
        /\ NewCommits[1].parents = <<commits[1].parents[1]>>
        /\ NewCommits[1].tree = commits[Len(commits)].tree
        /\ writes = <<NewCommits[1],
                      [call |-> "updateRef", ref |-> PrBranch,
                       sha |-> NewCommits[1].sha, force |-> TRUE]>>
        /\ refs = [InitRefs(commits) EXCEPT ![PrBranch] = NewCommits[1].sha]
        /\ result = Return([squashNeeded |-> TRUE, result |-> "success",
                            sha |-> NewCommits[1].sha])
C2_Witness ==
    /\ fn = "apiSquashPR" /\ Len(commits) = 3 /\ Done /\ apiFailed = {}
    /\ Len(commits[1].parents) = 2
    /\ commits[1].tree # commits[3].tree
    /\ refs[PrBranch] = NewSha(1)

HardFailures ==
    apiFailed \ {"repos.getContent(base)", "repos.getContent(base) 404"}
\* the trees the host was asked to create, in order
NewTrees == SelectSeq(writes, LAMBDA w : w.call = "createTree")

Unchanged(file) ==
    file.status # "removed" /\ file.base # Absent /\ file.pr = file.base
\* the single commit changes nothing relative to base: every file it lists is, on the
\* PR side (gone when removed), what it is on base
NoOpRelativeToBase ==
    \A k \in DOMAIN changedFiles :
        (IF changedFiles[k].status = "removed" THEN Absent ELSE changedFiles[k].pr)
            = changedFiles[k].base
\* no call failed, but for base-side reads of files that are not on base
NothingFailed == apiFailed \subseteq {"repos.getContent(base) 404"}
SkippedNoChanges ==
    /\ result = Return([rebaseNeeded |-> FALSE, result |-> "skipped-no-changes"])
    /\ NoWrites
\* a listed file that is unchanged and whose base-side read succeeded is not in the
\* tree update list
UnchangedFilesLeftOut ==
    \A k \in DOMAIN changedFiles :
        (Unchanged(changedFiles[k]) /\ "repos.getContent(base)" \notin apiFailed) =>
            \A u \in DOMAIN treeUpdates : treeUpdates[u].path # FileName(k)

ResolvedNames == {n \in DOMAIN enriched : "sha" \in DOMAIN enriched[n]}
\* lines 888-896 for the submodules of the manifests, whose default branch is main
ExpectedBaseBranch == IF args.isMergeIntoDefaultBranch THEN "main" ELSE args.baseRef
OpenPRs(n) == SelectSeq(host[n].prs, LAMBDA pr : pr.state = "open")

\* C5: whenever the submodule sha is on the computed base branch, the resolution is
\* (baseBranch, 0), whatever open PRs, merged PRs and branches have that sha as head,
\* also when exactly one open PR has it.
C5_BaseBranchFirst ==
    fn = "enrichSubmodules" =>
        \A n \in ResolvedNames :
            host[n].isShaOnBaseBranch =>
                /\ enriched[n].prBranch = ExpectedBaseBranch
                /\ enriched[n].prNumber = 0
C5_Witness ==
    /\ fn = "enrichSubmodules"
    /\ "libfoo" \in ResolvedNames
    /\ host["libfoo"].isShaOnBaseBranch
    /\ Len(OpenPRs("libfoo")) = 1
    /\ Len(host["libfoo"].branchesContainingSha) = 2
    /\ enriched["libfoo"].prBranch = "release" /\ enriched["libfoo"].prNumber = 0

\* the sha is not on the base branch, has no associated PR and is the head of two or
\* more branches
Ambiguous(n) ==
    /\ ~host[n].isShaOnBaseBranch
    /\ host[n].prs = <<>>
    /\ Len(host[n].branchesContainingSha) >= 2

\* C6: a submodule sha that is not on the base branch, has no associated PR and is
\* the head of two or more branches is not resolved: the workflow is marked failed
\* (core.setFailed), the submodule gets no branch and no PR number (both stay null),
\* and never one of the candidate branches.
C6_AmbiguousHeadFails ==
    fn = "enrichSubmodules" =>
        \A n \in ResolvedNames :
            Ambiguous(n) =>
                /\ setFailedCalled
                /\ \E k \in DOMAIN logs : logs[k].level = "setFailed"
                /\ enriched[n].prBranch = Null
                /\ enriched[n].prNumber = NullNumber
                /\ enriched[n].prBranch \notin Range(host[n].branchesContainingSha)
C6_Witness ==
    /\ fn = "enrichSubmodules" /\ Returned
    /\ "libfoo" \in ResolvedNames /\ Ambiguous("libfoo")
    /\ "libbar" \in ResolvedNames /\ enriched["libbar"].prNumber = 0
    /\ enriched["libfoo"].prBranch = Null
    /\ setFailedCalled

\* the reviewers, and each one's reviews in order
Reviewers == {reviews[k].user : k \in DOMAIN reviews}
History(u) == SelectSeq(reviews, LAMBDA r : r.user = u)
LastState(u) == History(u)[Len(History(u))].state
\* the reviewers whose history ends [.., APPROVED, CHANGES_REQUESTED]
TurnedAgainst ==
    {u \in Reviewers :
        /\ Len(History(u)) >= 2
        /\ History(u)[Len(History(u)) - 1].state = "APPROVED"
        /\ LastState(u) = "CHANGES_REQUESTED"}

\* C7: checkPrApprovals counts each reviewer at most once, by the state of the
\* reviewer's last review: approvalCount is the number of reviewers whose last review
\* is APPROVED and changeRequestCount the number whose last is CHANGES_REQUESTED, so
\* one who approved and then requested changes counts as a change request only, and
\* the two counts together never exceed the number of reviewers.
C7_LatestReviewCounts ==
    (fn = "checkPrApprovals" /\ Returned) =>
        /\ result.value.approvalCount =
              Cardinality({u \in Reviewers : LastState(u) = "APPROVED"})
        /\ result.value.changeRequestCount =
              Cardinality({u \in Reviewers : LastState(u) = "CHANGES_REQUESTED"})
        /\ result.value.changeRequestCount >= Cardinality(TurnedAgainst)
        /\ result.value.approvalCount <= Cardinality(Reviewers \ TurnedAgainst)
        /\ result.value.approvalCount + result.value.changeRequestCount
              <= Cardinality(Reviewers)
C7_Witness ==
    /\ fn = "checkPrApprovals" /\ Returned
    /\ reviews = <<[user |-> "alice", state |-> "APPROVED"],
                   [user |-> "bob", state |-> "APPROVED"],
                   [user |-> "alice", state |-> "CHANGES_REQUESTED"]>>
    /\ result.value = [approvalCount |-> 1, changeRequestCount |-> 1]

Rewriters == {"apiSquashPR", "apiRebasePR", "apiCherryPickPR"}
\* the structured failure of apiRebasePR and apiCherryPickPR
ReturnedFailed ==
    /\ result.kind = "return"
    /\ result.value.result = "failed"
    /\ "error" \in DOMAIN result.value
    /\ IF fn = "apiRebasePR" THEN result.value.rebaseNeeded
       ELSE result.value.cherryPickNeeded
\* the error was logged and thrown to the caller
Rethrown ==
    /\ result.kind = "throw"
    /\ Len(logs) > 0 /\ logs[Len(logs)].level = "error"

C9_CherryPickOrder ==
    (fn = "apiCherryPickPR" /\ Len(commits) >= 1 /\ Done /\ apiFailed = {}) =>
        LET n == Len(commits)
        IN /\ Len(writes) = 2 * n + 3
           /\ writes[1] = [call |-> "createRef", ref |-> TempBranch, sha |-> BaseTip]
           /\ \A k \in 1..n :
                 /\ writes[2 * k].call = "createCommit"
                 /\ writes[2 * k].tree = commits[k].tree
                 /\ writes[2 * k].parents =
                       <<IF k = 1 THEN BaseTip ELSE writes[2 * k - 2].sha>>
                 /\ writes[2 * k + 1] =
                       [call |-> "updateRef", ref |-> TempBranch,
                        sha |-> writes[2 * k].sha, force |-> FALSE]
           /\ writes[2 * n + 2] = [call |-> "updateRef", ref |-> PrBranch,
                                   sha |-> writes[2 * n].sha, force |-> TRUE]
           /\ writes[2 * n + 3] = [call |-> "deleteRef", ref |-> TempBranch]
           /\ refs[TempBranch] = NoSha
           /\ refs[PrBranch] = writes[2 * n].sha
           /\ result = Return([cherryPickNeeded |-> TRUE, result |-> "success",
                               sha |-> refs[PrBranch]])
C9_Witness ==
    /\ fn = "apiCherryPickPR" /\ Len(commits) = 3 /\ Done /\ apiFailed = {}
    /\ commits[1].tree # commits[2].tree
    /\ refs[TempBranch] = NoSha /\ refs[PrBranch] = NewSha(3)

\* the commands run so far, in order, and those among them that succeeded
Runs == SelectSeq(logs, LAMBDA l : l.level \in {"exec", "exec failed"})
Execs == SelectSeq(logs, LAMBDA l : l.level = "exec")
Attempted(cmd) == \E k \in DOMAIN Runs : Runs[k].msg = cmd
Executed(cmd) == \E k \in DOMAIN Execs : Execs[k].msg = cmd
\* f is the submodule path s or lies under it
Within(f, s) ==
    \/ f = s
    \/ /\ Len(f) > Len(s) + 1
       /\ \A k \in 1..Len(s) : f[k] = s[k]
       /\ f[Len(s) + 1] = "/"
OutsideSubmodules(f) == \A k \in DOMAIN args.submodules : ~Within(f, args.submodules[k])
Outside == SelectSeq(conflicted, OutsideSubmodules)
AfterResolution == {<<"git commit --no-edit">>, <<"git rebase --continue">>,
                    <<"git push pr">>, <<"git checkout tgt">>, <<"git pull tgt">>}

\* C10: in localGitMergePipeline for a base repo with submodules, after the rebase
\* attempt: if some unmerged path lies outside every submodule path, the process
\* exits (process.exit(1)) after reporting those files, and no git add, commit,
\* rebase --continue or push is run; if all unmerged paths lie within submodule
\* paths, exactly those paths are staged, in order, before the commit, which is
\* made before git rebase --continue is run, and the pipeline goes on past the
\* rebase only once all three have run.
C10_ConflictTriage ==
    (fn = "localGitMergePipeline" /\ Len(conflicted) > 0) =>
        IF Len(Outside) > 0
        THEN /\ exited /\ pc = "exit" /\ result = NoResult
             /\ logs[Len(logs) - 1] = Log("setFailed", Outside)
             /\ logs[Len(logs)] = Log("setOutput", Outside)
             /\ staged = <<>>
             /\ \A k \in DOMAIN Runs :
                   /\ Runs[k].msg[1] # "git add"
                   /\ Runs[k].msg \notin AfterResolution
        ELSE /\ ~exited
             /\ staged = SubSeq(conflicted, 1, Len(staged))
             /\ SelectSeq(Execs, LAMBDA e : e.msg[1] = "git add")
                   = [k \in 1..Len(staged) |->
                        Log("exec", <<"git add", conflicted[k]>>)]
             /\ Attempted(<<"git commit --no-edit">>) => staged = conflicted
             /\ Attempted(<<"git rebase --continue">>) =>
                   Executed(<<"git commit --no-edit">>)
             /\ (pc \in {"git checkout tgt", "git pull tgt"} \/ Returned) =>
                   Attempted(<<"git rebase --continue">>)
C10_Witness ==
    /\ fn = "localGitMergePipeline" /\ exited
    /\ args.submodules = <<SubS, SubT>>
    /\ conflicted = <<<<"s", "/", "a">>, <<"s", "x">>>>

\* the directory change into the submodule path succeeded (lines 363-364)
Entered == \E k \in DOMAIN logs : logs[k] = Log("info", <<"Successfully changed">>)
\* every way localGitMergePipeline ends: a return, a thrown error, process.exit
Exit == Done \/ exited

\* C11, as claimed: whenever localGitMergePipeline is called with a non-empty
\* submodulePath and changes the working directory into it, the working directory
\* is the original one again at every exit of the function: return, thrown error
\* and process exit.
C11_AsClaimed ==
    (fn = "localGitMergePipeline" /\ args.submodulePath # "" /\ Entered /\ Exit) =>
        cwd = OriginalCwd
\* the pipeline has returned normally and the process is still in the submodule
C11_Witness ==
    /\ fn = "localGitMergePipeline" /\ Returned /\ Entered
    /\ args.submodulePath = "vendor/libfoo"
    /\ cwd = "vendor/libfoo"

\* one of the PR rules applies: exactly one open PR, or at least one merged PR
\* (lines 995, 1008)
PrRuleApplies(n) ==
    \/ Len(OpenPRs(n)) = 1
    \/ \E k \in DOMAIN host[n].prs : host[n].prs[k].merged_at # 0

\* C12: in every resolution prNumber is 0 exactly when the sha is on the base branch
\* (and then prBranch is the base branch), prNumber is -1 exactly when the sha is not
\* on the base branch, no PR rule applies and exactly one branch has it as head (and
\* then prBranch is that branch), and the result is one pair: a branch with a number,
\* or neither.
C12_SentinelNumbers ==
    fn = "enrichSubmodules" =>
        \A n \in ResolvedNames :
            /\ (enriched[n].prNumber = 0) <=> host[n].isShaOnBaseBranch
            /\ enriched[n].prNumber = 0 => enriched[n].prBranch = ExpectedBaseBranch
            /\ (enriched[n].prNumber = -1) <=>
                  /\ ~host[n].isShaOnBaseBranch
                  /\ ~PrRuleApplies(n)
                  /\ Len(host[n].branchesContainingSha) = 1
            /\ enriched[n].prNumber = -1 =>
                  enriched[n].prBranch = host[n].branchesContainingSha[1]
            /\ (enriched[n].prBranch = Null) <=> (enriched[n].prNumber = NullNumber)
C12_Witness ==
    /\ fn = "enrichSubmodules"
    /\ "libfoo" \in ResolvedNames
    /\ Len(OpenPRs("libfoo")) = 2
    /\ host["libfoo"].branchesContainingSha = <<"br2">>
    /\ enriched["libfoo"].prNumber = -1 /\ enriched["libfoo"].prBranch = "br2"

\* the candidate set is final: the function is past its probing part
Probed == pc \in {"partition", "done"} /\ "pulls.get" \notin apiFailed

\* C13: getConflictedFiles has a non-empty candidate conflict set only when
\* pr.mergeable is false and the base/head comparison says "diverged"; then, when the
\* comparisons answer, the set is the intersection of the files changed between the
\* merge base and the base tip with those changed between the merge base and the PR
\* tip; in every other case (mergeable true or null, or a status other than
\* diverged) the set is empty.
C13_CandidateConflicts ==
    fn = "getConflictedFiles" =>
        /\ filesWithConflicts # <<>> =>
              args.mergeable = "false" /\ args.status = "diverged"
        /\ (Probed /\ apiFailed = {}
                /\ args.mergeable = "false" /\ args.status = "diverged") =>
              /\ Range(filesWithConflicts) =
                    Range(args.baseChanged) \cap Range(args.headChanged)
              /\ \A a, b \in DOMAIN filesWithConflicts :
                    a # b => filesWithConflicts[a] # filesWithConflicts[b]
        /\ (Probed /\ ~(args.mergeable = "false" /\ args.status = "diverged")) =>
              filesWithConflicts = <<>>
C13_Witness ==
    /\ fn = "getConflictedFiles" /\ Returned /\ apiFailed = {}
    /\ args.baseChanged = <<<<"a">>, SubS>>
    /\ args.headChanged = <<SubS, <<"s", "x">>>>
    /\ filesWithConflicts = <<SubS>>

\* the candidate files equal to or under one of the given submodule paths, and the
\* others
ProbeInside(f) ==
    \E k \in DOMAIN args.submodulePaths : Within(f, args.submodulePaths[k])
InSubmodulePaths == SelectSeq(filesWithConflicts, ProbeInside)
Others == SelectSeq(filesWithConflicts, LAMBDA f : ~ProbeInside(f))

\* C14: getConflictedFiles splits the candidate files into those equal to or under a
\* given submodule path and all others; with at least one file among the others it
\* marks the workflow failed (core.setFailed) and throws instead of returning;
\* otherwise it returns the split, so every returned result has an empty
\* non_submodule_conflicts and files_with_conflicts equal to submodule_conflicts.
C14_NonSubmoduleConflictThrows ==
    (fn = "getConflictedFiles" /\ Done /\ "pulls.get" \notin apiFailed) =>
        /\ IF Len(Others) > 0
           THEN /\ result.kind = "throw"
                /\ logs[Len(logs)] = Log("setFailed", Others)
           ELSE /\ result.kind = "return"
                /\ result.value.submodule_conflicts = InSubmodulePaths
        /\ result.kind = "return" =>
              /\ result.value.non_submodule_conflicts = <<>>
              /\ result.value.files_with_conflicts = result.value.submodule_conflicts
              /\ result.value.submodule_conflicts = filesWithConflicts
C14_Witness ==
    /\ fn = "getConflictedFiles" /\ Done
    /\ args.submodulePaths = <<SubS>>
    /\ filesWithConflicts = <<<<"s", "/", "a">>, <<"s", "x">>>>
    /\ result.kind = "throw"

\* the URL has the hosting HTTPS form https://github.com/<org>/<name>[.git]
HostingHttps == args.head[1] = "https://github.com/"

\* C15, as claimed: for a hosting HTTPS URL https://github.com/<org>/<name>.git, or
\* the same without the .git suffix, deriveRepoNameFromUrl returns exactly <name>.
C15_AsClaimed ==
    (fn = "deriveRepoNameFromUrl" /\ Done /\ HostingHttps) => result = Return(args.name)
\* https://github.com/org/docs.github.io.git gives docshub.io.git
C15_Witness ==
    /\ fn = "deriveRepoNameFromUrl" /\ Done /\ HostingHttps
    /\ args.url = <<"https://github.com/", "org", "/", "docs", ".git", "hub.io", ".git">>
    /\ result = Return(<<"docs", "hub.io", ".git">>)

\* conflicts were found, all within submodule paths, they were staged and committed
\* and git rebase --continue was run
AutoResolved ==
    /\ Len(conflicted) > 0 /\ staged = conflicted
    /\ Executed(<<"git commit --no-edit">>)
    /\ Attempted(<<"git rebase --continue">>)

\* C16, as claimed: every execution of localGitMergePipeline that detects conflicts
\* confined to submodule paths, auto-resolves them and continues the rebase has
\* pushed the PR branch (git push --force-with-lease) by the time it returns.
C16_AsClaimed ==
    (fn = "localGitMergePipeline" /\ Returned /\ AutoResolved) =>
        Attempted(<<"git push pr">>)
\* a return after auto-resolution on which no push was ever run
C16_Witness ==
    /\ fn = "localGitMergePipeline" /\ Returned /\ AutoResolved
    /\ conflicted = <<SubS, <<"s", "/", "a">>>>
    /\ \A k \in DOMAIN Runs : Runs[k].msg # <<"git push pr">>

MergedPRs(n) == SelectSeq(host[n].prs, LAMBDA pr : pr.merged_at # 0)
\* the resolution of submodule n is the pair (branch, number)
ResolvedAs(n, branch, number) ==
    enriched[n].prBranch = branch /\ enriched[n].prNumber = number
\* the resolution of submodule n failed for the reason why
FailedAs(n, why) ==
    /\ ResolvedAs(n, Null, NullNumber)
    /\ setFailedCalled
    /\ \E k \in DOMAIN logs : logs[k] = Log("setFailed", <<why, n>>)

\* C17: for every combination of inputs the resolution is the outcome of the first
\* applicable rule, in this order: (a) sha on the base branch: (baseBranch, 0);
\* (b) exactly one open PR: its head branch and number; (c) at least one merged PR:
\* head branch and number of one with the latest merged_at; (d) exactly one branch
\* has the sha as head: (that branch, -1); (e) more than one such branch: failure;
\* (f) otherwise: failure.
C17_FixedPrecedence ==
    fn = "enrichSubmodules" =>
        \A n \in ResolvedNames :
            IF host[n].isShaOnBaseBranch
            THEN ResolvedAs(n, ExpectedBaseBranch, 0)
            ELSE IF Len(OpenPRs(n)) = 1
            THEN ResolvedAs(n, OpenPRs(n)[1].head, OpenPRs(n)[1].number)
            ELSE IF Len(MergedPRs(n)) >= 1
            THEN \E k \in DOMAIN MergedPRs(n) :
                    /\ \A j \in DOMAIN MergedPRs(n) :
                          MergedPRs(n)[j].merged_at <= MergedPRs(n)[k].merged_at
                    /\ ResolvedAs(n, MergedPRs(n)[k].head, MergedPRs(n)[k].number)
            ELSE IF Len(host[n].branchesContainingSha) = 1
            THEN ResolvedAs(n, host[n].branchesContainingSha[1], -1)
            ELSE IF Len(host[n].branchesContainingSha) > 1
            THEN FailedAs(n, "HEAD of multiple branches and has no PR")
            ELSE FailedAs(n, "Could not determine PR or branch")
\* rule (c) with the later merge second in the list, and a head branch that rule (d)
\* would have taken
C17_Witness ==
    /\ fn = "enrichSubmodules" /\ "libfoo" \in ResolvedNames
    /\ ~host["libfoo"].isShaOnBaseBranch
    /\ Len(host["libfoo"].branchesContainingSha) = 1
    /\ Len(host["libfoo"].prs) = 2
    /\ host["libfoo"].prs[1].merged_at = 1 /\ host["libfoo"].prs[2].merged_at = 2
    /\ host["libfoo"].prs[2].head # host["libfoo"].branchesContainingSha[1]
    /\ ResolvedAs("libfoo", host["libfoo"].prs[2].head, 12)

\* the log entries that are runs of a command
IsRun(k) == logs[k].level \in {"exec", "exec failed"}
\* the command the code runs after one that failed with allowFail: the conflict
\* listing after the rebase (line 413), the validating rebase after a listing that
\* gave nothing (line 445), the push after a validating rebase that printed nothing
\* (line 468), the checkout after the continued rebase (line 477)
FollowedBy(cmd) ==
    CASE cmd = "git rebase" -> "git diff"
      [] cmd = "git diff" -> "git rebase (validate)"
      [] cmd = "git rebase (validate)" -> "git push pr"
      [] cmd = "git rebase --continue" -> "git checkout tgt"
LaterRuns(k) == {j \in DOMAIN logs : j > k /\ IsRun(j)}

\* C18: in localGitMergePipeline every command is logged ("$ <cmd>") right before it
\* is executed; a command that fails without allowFail throws: the error is logged
\* and thrown to the caller and no later command runs; a command that fails with
\* allowFail logs a warning, yields nothing (the empty string) and the pipeline goes
\* on with the next command.
C18_RunLogsAndFailures ==
    fn = "localGitMergePipeline" =>
        \A k \in DOMAIN logs :
            /\ IsRun(k) => k > 1 /\ logs[k - 1] = Log("info", <<"$">> \o logs[k].msg)
            /\ logs[k].level = "exec failed" =>
                  IF logs[k].msg[1] \in AllowFail
                  THEN /\ logs[k + 1] =
                            Log("warning", <<"Command failed (continuing)">> \o logs[k].msg)
                       /\ logs[k].msg[1] = "git diff" => conflicted = <<>>
                       /\ IF LaterRuns(k) = {}
                          THEN /\ pc = FollowedBy(logs[k].msg[1])
                               /\ result = NoResult /\ ~exited
                          ELSE \E j \in LaterRuns(k) :
                                  /\ \A h \in LaterRuns(k) : j <= h
                                  /\ logs[j].msg = <<FollowedBy(logs[k].msg[1])>>
                  ELSE /\ result = Throw(logs[k].msg) /\ pc = "done"
                       /\ Len(logs) = k + 1
                       /\ logs[k + 1] = Log("error", <<"Error in git merge pipeline">>)
\* the conflict listing failed and was passed over; the push then failed and threw
C18_Witness ==
    /\ fn = "localGitMergePipeline" /\ Done
    /\ \E k \in DOMAIN logs : logs[k] = Log("exec failed", <<"git diff">>)
    /\ \E k \in DOMAIN logs : logs[k] = Log("exec", <<"git rebase (validate)">>)
    /\ result = Throw(<<"git push pr">>)

\* fetching or resolving the pointer sha of submodule n raised an error (line 819)
PointerFailed(n) ==
    \E k \in DOMAIN logs : logs[k] = Log("warning", <<"Error processing submodule", n>>)
\* the repository lookup of submodule n failed (getDefaultBranch returned null)
LookupFailed(n) ==
    \E k \in DOMAIN logs : logs[k] = Log("warning", <<"Failed repo lookup", n>>)
BaseFields == {"path", "url", "repoName", "subDefaultBranch", "baseBranch"}

\* C19: enrichSubmodules is fail-open: an error raised while fetching or resolving
\* one submodule's pointer sha is caught and logged, the call never throws, the
\* other submodules are still processed, and the result returned holds the failing
\* submodule with its already computed fields (path, url, repoName,
\* subDefaultBranch, baseBranch) and without sha, prBranch and prNumber.
C19_FailOpen ==
    fn = "enrichSubmodules" =>
        /\ result.kind # "throw"
        /\ \A k \in 1..i :
              PointerFailed(rawSubmodules[k].name) =>
                  /\ rawSubmodules[k].name \in DOMAIN enriched
                  /\ enriched[rawSubmodules[k].name] =
                        [path |-> rawSubmodules[k].path, url |-> rawSubmodules[k].url,
                         repoName |-> <<rawSubmodules[k].name>>,
                         subDefaultBranch |-> "main",
                         baseBranch |-> ExpectedBaseBranch]
                  /\ DOMAIN enriched[rawSubmodules[k].name] = BaseFields
        /\ Returned =>
              /\ result.value = enriched
              /\ i = Len(rawSubmodules)
              /\ \A k \in DOMAIN rawSubmodules :
                    (rawSubmodules[k].url # <<>> /\ ~LookupFailed(rawSubmodules[k].name))
                        => rawSubmodules[k].name \in DOMAIN enriched
\* the first submodule's pointer read failed, the second was resolved all the same
C19_Witness ==
    /\ fn = "enrichSubmodules" /\ Returned
    /\ PointerFailed("libfoo") /\ "libfoo" \in DOMAIN result.value
    /\ "sha" \notin DOMAIN result.value["libfoo"]
    /\ "libbar" \in ResolvedNames /\ result.value["libbar"].prNumber = 0

\* the host accepted the creation of the temporary branch
TempCreated == \E k \in DOMAIN writes : writes[k].call = "createRef"
\* the host accepted the forced update of the PR branch
PrBranchUpdated ==
    \E k \in DOMAIN writes : writes[k].call = "updateRef" /\ writes[k].ref = PrBranch

\* C20: in apiCherryPickPR, if an API call fails after the temporary branch was
\* created and before its deletion succeeded (a commit read or creation, an update of
\* the temporary ref, the update of the PR branch, the deletion itself), the function
\* returns result "failed" and the temporary branch still exists on the host; and if
\* the failure comes before the forced update of the PR branch, the PR branch is
\* where it was at entry.
C20_FailureLeavesTempBranch ==
    (fn = "apiCherryPickPR" /\ Done /\ apiFailed # {} /\ TempCreated) =>
        /\ result.kind = "return"
        /\ result.value.cherryPickNeeded /\ result.value.result = "failed"
        /\ refs[TempBranch] # NoSha
        /\ \A k \in DOMAIN writes : writes[k].call # "deleteRef"
        /\ ~PrBranchUpdated => refs[PrBranch] = InitRefs(commits)[PrBranch]
\* the second commit's creation failed after the first one was replayed
C20_Witness ==
    /\ fn = "apiCherryPickPR" /\ Done /\ Len(commits) = 2
    /\ apiFailed = {"git.createCommit"}
    /\ refs[TempBranch] = NewSha(1)
    /\ refs[PrBranch] = PrSha(2)
    /\ result.value.result = "failed"

\* the commands that would write to the target branch: the fast-forward merge into
\* it and the push of it (lines 487 and 491)
TargetWrites == {<<"git merge --ff-only">>, <<"git push tgt">>}
PushCommands == {"git push pr", "git push tgt"}

=============================================================================
